---- MODULE Spec2Model ----
(***************************************************************************)
(* The per-parameter optimizer core of burn-core: Adam (optim/adam.rs) and *)
(* RMSProp (optim/rmsprop.rs) as SimpleOptimizer implementations.          *)
(*                                                                         *)
(* Numbers.  The backend's elements and the hyperparameters are f32: a     *)
(* number is an IEEE 754 binary32 value, finite (sign, 24-bit mantissa,    *)
(* exponent; both zeros, subnormals), NaN, +inf or -inf, and every         *)
(* operation rounds to nearest, ties to even, and overflows to infinity.   *)
(* A learning rate or a penalty (f64 in the code) is taken among the       *)
(* values f32 holds and converted to the element type where the code does. *)
(*                                                                         *)
(* powf.  The arithmetic operations and sqrt are correctly rounded; powf   *)
(* is not: of an inexact square it returns one of the two f32 values       *)
(* around it, and which one differs from argument to argument.  Every      *)
(* call of powf therefore takes its rounding, "below" or "above", as an    *)
(* input of the step it is made in; call.powf records the roundings of     *)
(* the last step.                                                          *)
(*                                                                         *)
(* Tensors.  Every tensor operation the optimizers use is elementwise, so  *)
(* a tensor is modelled by one of its elements.                            *)
(*                                                                         *)
(* Only to_device looks at where a tensor lives: there a tensor is a record *)
(* of its data and its device, and the variable device says where the      *)
(* tensors of the state are.                                               *)
(*                                                                         *)
(* Option<T> is a sequence: << >> is None and <<x>> is Some(x).            *)
(***************************************************************************)
EXTENDS Integers, Sequences, FiniteSets, TLC

VARIABLES
    optim,   \* the optimizer built by AdamConfig::init / RMSPropConfig::init
    tensor,  \* the parameter
    state,   \* Option<State>: the per-parameter state the caller threads
    call,    \* the last call of step: its arguments and what it returned
    steps,   \* number of step calls so far
    fresh,   \* TRUE while the state was produced by step calls only
    device   \* the device that holds the tensors of the state

vars == <<optim, tensor, state, call, steps, fresh, device>>

(***************************************************************************)
(* Bounds of the model                                                     *)
(***************************************************************************)
MaxSteps == 2    \* step calls per behaviour

(***************************************************************************)
(* Option                                                                  *)
(***************************************************************************)
None == << >>
Some(x) == <<x>>
IsSome(o) == Len(o) = 1
IsNone(o) == Len(o) = 0
Unwrap(o) == o[1]

\* `let v = value;` followed by the rest In(v): the value is computed once
Let(value, In(_)) == In(value)

(***************************************************************************)
(* Scalar arithmetic: IEEE 754 binary32 (f32, the element type of the      *)
(* backend and the type of the hyperparameters), round to nearest, ties to *)
(* even.  A finite value is s * m * 2^e with s the sign (1 or -1),         *)
(* 0 <= m < 2^24 and e >= -149; m >= 2^23 unless e = -149 (subnormal).     *)
(* The zeros are +0 = B32(1, 0, 0) and -0 = B32(-1, 0, 0).                 *)
(***************************************************************************)
B32(s, m, e) == [k |-> "b32", s |-> s, m |-> m, e |-> e]
NaN == [k |-> "nan", v |-> 0]
PInf == [k |-> "inf", v |-> 1]
NInf == [k |-> "inf", v |-> -1]
Zero == B32(1, 0, 0)
NegZero == B32(-1, 0, 0)
One == B32(1, 2^23, -23)
B32MinExp == -149
B32MaxExp == 104

IsFinite(x) == x.k = "b32"
IsNaN(x) == x.k = "nan"
IsInf(x) == x.k = "inf"

Abs(n) == IF n < 0 THEN -n ELSE n
Inf(s) == IF s > 0 THEN PInf ELSE NInf
SignedZero(s) == IF s > 0 THEN Zero ELSE NegZero

RECURSIVE ISqrt(_)
ISqrt(n) ==
    IF n < 2 THEN n
    ELSE LET s == 2 * ISqrt(n \div 4)
         IN  IF (s + 1) * (s + 1) <= n THEN s + 1 ELSE s

\* the number of bits of n, 0 <= n < 2^31, found by halving the range
BitLen4(n) == IF n < 4 THEN (IF n < 2 THEN n ELSE 2) ELSE (IF n < 8 THEN 3 ELSE 4)
BitLen8(n) == IF n < 2^4 THEN BitLen4(n) ELSE 4 + BitLen4(n \div 2^4)
BitLen16(n) == IF n < 2^8 THEN BitLen8(n) ELSE 8 + BitLen8(n \div 2^8)
BitLen(n) == IF n < 2^16 THEN BitLen16(n) ELSE 16 + BitLen16(n \div 2^16)

\* the sticky bit: set the last bit of n when bits were lost
Jam(n, lost) == IF lost /\ n % 2 = 0 THEN n + 1 ELSE n
ShiftRightJam(n, j) ==
    IF j = 0 THEN n
    ELSE IF j >= 31 THEN (IF n # 0 THEN 1 ELSE 0)
    ELSE Jam(n \div 2^j, n % 2^j # 0)

\* a binary32 next to s * n * 2^e, 0 <= n < 2^31: the nearest one (ties go to
\* the even mantissa), or the neighbour below or above it in magnitude; a
\* last bit of n set by Jam stands for a non-zero tail below it; a value
\* too small for the format becomes the zero of its sign
RoundPackMode(mode, s, n, e) ==
    IF n = 0 THEN SignedZero(s)
    ELSE
    Let(BitLen(n) - 24, LAMBDA drop0 :
    Let(IF e + drop0 < B32MinExp THEN B32MinExp - e ELSE drop0, LAMBDA drop :
        IF drop <= 0
        THEN (IF e + drop > B32MaxExp THEN Inf(s)
              ELSE B32(s, n * 2^(-drop), e + drop))
        ELSE IF drop > 31
        THEN (IF mode = "above" THEN B32(s, 1, B32MinExp) ELSE SignedZero(s))
        ELSE
        Let(IF drop = 31 THEN 0 ELSE n \div 2^drop, LAMBDA q :
        Let(IF drop = 31 THEN n ELSE n % 2^drop, LAMBDA r :
        Let(IF mode = "nearest"
            THEN (IF r > 2^(drop - 1) \/ (r = 2^(drop - 1) /\ q % 2 = 1)
                  THEN q + 1 ELSE q)
            ELSE IF mode = "above" /\ r > 0 THEN q + 1
            ELSE q, LAMBDA q2 :
            IF q2 = 0 THEN SignedZero(s)
            ELSE IF q2 = 2^24
                 THEN (IF e + drop + 1 > B32MaxExp THEN Inf(s)
                       ELSE B32(s, 2^23, e + drop + 1))
            ELSE IF e + drop > B32MaxExp THEN Inf(s)
            ELSE B32(s, q2, e + drop))))))

\* the rounding of the arithmetic operations: to nearest, ties to even
RoundPack(s, n, e) == RoundPackMode("nearest", s, n, e)

\* the f32 n / 2^j of an integer n, |n| < 2^31
Dyadic(n, j) == RoundPack(IF n < 0 THEN -1 ELSE 1, Abs(n), -j)

\* a scalar argument (f32 or f64) as an element of the tensor: `.elem()`
ToElem(c) == IF IsFinite(c) THEN RoundPack(c.s, c.m, c.e) ELSE c

\* mantissa and exponent with the leading bit at 2^23 (m > 0)
B32Norm(x) ==
    Let(24 - BitLen(x.m), LAMBDA up : [m |-> x.m * 2^up, e |-> x.e - up])

B32IsZero(x) == IsFinite(x) /\ x.m = 0
B32Sign(x) == IF IsFinite(x) THEN x.s ELSE x.v

B32Neg(a) ==
    IF IsNaN(a) THEN NaN
    ELSE IF IsInf(a) THEN Inf(-a.v)
    ELSE B32(-a.s, a.m, a.e)

\* x + y for finite non-zero x and y with x.e >= y.e, on three extra bits;
\* an exact sum of zero is +0
B32AddAligned(x, y) ==
    Let(x.s * (x.m * 8) + y.s * ShiftRightJam(y.m * 8, x.e - y.e), LAMBDA sum :
        RoundPack(IF sum < 0 THEN -1 ELSE 1, Abs(sum), x.e - 3))

B32Add(a, b) ==
    IF IsNaN(a) \/ IsNaN(b) THEN NaN
    ELSE IF IsInf(a) /\ IsInf(b) THEN (IF a.v = b.v THEN a ELSE NaN)
    ELSE IF IsInf(a) THEN a
    ELSE IF IsInf(b) THEN b
    ELSE IF a.m = 0 /\ b.m = 0 THEN (IF a.s = b.s THEN a ELSE Zero)
    ELSE IF a.m = 0 THEN b
    ELSE IF b.m = 0 THEN a
    ELSE IF a.e >= b.e THEN B32AddAligned(a, b)
    ELSE B32AddAligned(b, a)

\* s * (hi * 2^24 + lo) * 2^e: the leading 30 bits are kept before rounding
RoundPackWide(mode, s, hi, lo, e) ==
    Let(IF BitLen(hi) > 6 THEN BitLen(hi) - 6 ELSE 0, LAMBDA d :
        RoundPackMode(mode, s, Jam(hi * 2^(24 - d) + lo \div 2^d, lo % 2^d # 0),
                      e + d))

\* the 48-bit product of two mantissas given in 12-bit halves
B32MulHalves(mode, s, ah, al, bh, bl, e) ==
    Let(ah * bl + al * bh, LAMBDA mid :
    Let(al * bl + (mid % 2^12) * 2^12, LAMBDA lo0 :
        RoundPackWide(mode, s, ah * bh + mid \div 2^12 + lo0 \div 2^24,
                      lo0 % 2^24, e)))

B32Mul(a, b) ==
    IF IsNaN(a) \/ IsNaN(b) THEN NaN
    ELSE IF IsInf(a) \/ IsInf(b)
         THEN (IF B32IsZero(a) \/ B32IsZero(b) THEN NaN
               ELSE Inf(B32Sign(a) * B32Sign(b)))
    ELSE IF a.m = 0 \/ b.m = 0 THEN SignedZero(a.s * b.s)
    ELSE B32MulHalves("nearest", a.s * b.s, a.m \div 2^12, a.m % 2^12,
                      b.m \div 2^12, b.m % 2^12, a.e + b.e)

\* j more bits of the quotient q of a long division by d < 2^24 with
\* remainder rem < d, up to seven bits at a time; the last bit is sticky
RECURSIVE DivBits(_, _, _, _)
DivBits(rem, d, j, q) ==
    IF j = 0 THEN Jam(q, rem # 0)
    ELSE Let(IF j < 7 THEN j ELSE 7, LAMBDA k :
             DivBits((rem * 2^k) % d, d, j - k, q * 2^k + (rem * 2^k) \div d))

B32Div(a, b) ==
    IF IsNaN(a) \/ IsNaN(b) THEN NaN
    ELSE IF IsInf(a) THEN (IF IsInf(b) THEN NaN ELSE Inf(a.v * b.s))
    ELSE IF IsInf(b) THEN SignedZero(a.s * b.v)
    ELSE IF b.m = 0 THEN (IF a.m = 0 THEN NaN ELSE Inf(a.s * b.s))
    ELSE IF a.m = 0 THEN SignedZero(a.s * b.s)
    ELSE
    Let(B32Norm(a), LAMBDA x :
    Let(B32Norm(b), LAMBDA y :
        RoundPack(a.s * b.s, DivBits(x.m % y.m, y.m, 26, x.m \div y.m),
                  x.e - y.e - 26)))

RECURSIVE SqrtBits(_, _, _)
SqrtBits(rem, r, j) ==
    IF j = 0 THEN Jam(r, rem # 0)
    ELSE IF 4 * rem >= 4 * r + 1 THEN SqrtBits(4 * rem - (4 * r + 1), 2 * r + 1, j - 1)
    ELSE SqrtBits(4 * rem, 2 * r, j - 1)

\* sqrt(-0) is -0
B32Sqrt(a) ==
    IF IsNaN(a) THEN NaN
    ELSE IF IsInf(a) THEN (IF a.v > 0 THEN PInf ELSE NaN)
    ELSE IF a.m = 0 THEN a
    ELSE IF a.s < 0 THEN NaN
    ELSE
    Let(B32Norm(a), LAMBDA x :
    Let(IF x.e % 2 = 0 THEN x.m ELSE 2 * x.m, LAMBDA m :
    Let(ISqrt(m), LAMBDA r0 :
        RoundPack(1, SqrtBits(m - r0 * r0, r0, 14),
                  ((IF x.e % 2 = 0 THEN x.e ELSE x.e - 1) \div 2) - 14))))

\* the operations of the element type
FNeg(a) == B32Neg(a)
FAdd(a, b) == B32Add(a, b)
FSub(a, b) == FAdd(a, FNeg(b))
FMul(a, b) == B32Mul(a, b)
FDiv(a, b) == B32Div(a, b)
FSqrt(a) == B32Sqrt(a)

\* a == 0. of a float: true for both zeros
FIsZero(a) == IsFinite(a) /\ a.m = 0

\* a > 0. of a float: false for NaN and for the zeros
FGtZero(a) ==
    \/ IsFinite(a) /\ a.s > 0 /\ a.m > 0
    \/ a = PInf
\* a >= 0. of a float: false for NaN
FGeZero(a) ==
    \/ IsFinite(a) /\ (a.m = 0 \/ a.s > 0)
    \/ a = PInf
\* |a|: the sign is cleared, also the sign of a zero
FAbs(a) ==
    IF IsNaN(a) THEN NaN
    ELSE IF IsInf(a) THEN PInf
    ELSE B32(1, a.m, a.e)
\* a < b of two floats (the sign of a difference survives its rounding)
FLt(a, b) == FGtZero(FSub(b, a))

\* f32::powi(a, b): multiply-and-square over the bits of b, reciprocal for b < 0
RECURSIVE PowiLoop(_, _, _)
PowiLoop(a, b, r) ==
    LET r2 == IF b % 2 = 1 THEN FMul(r, a) ELSE r
        \* b / 2 of a signed integer truncates toward zero
        b2 == (b \div 2) + (IF b < 0 /\ b % 2 = 1 THEN 1 ELSE 0)
        a2 == FMul(a, a)
    IN  IF b2 = 0 THEN r2
        \* (the test is always true: it makes r2 and a2 values before the call)
        ELSE IF r2 = r2 /\ a2 = a2 THEN PowiLoop(a2, b2, r2) ELSE NaN

Powi(a, b) ==
    LET r == PowiLoop(a, b, One)
    IN  IF b < 0 THEN FDiv(One, r) ELSE r

(***************************************************************************)
(* usize and the cast to i32.  A 64-bit usize is kept as three limbs,      *)
(* top * 2^60 + hi * 2^30 + lo with 0 <= top < 16 and 0 <= hi, lo < 2^30.  *)
(***************************************************************************)
LimbBase == 2^30
USize(n) == [top |-> 0, hi |-> n \div LimbBase, lo |-> n % LimbBase]
USizeMax == [top |-> 15, hi |-> LimbBase - 1, lo |-> LimbBase - 1]
\* `time += 1` at usize::MAX: a build with overflow checks panics ("attempt
\* to add with overflow"), a build without them wraps to 0
UsizeAdd1Overflows(t) == t = USizeMax
\* `time += 1` where it returns
UsizeAdd1(t) ==
    IF t.lo + 1 < LimbBase THEN [t EXCEPT !.lo = t.lo + 1]
    ELSE IF t.hi + 1 < LimbBase THEN [t EXCEPT !.hi = t.hi + 1, !.lo = 0]
    ELSE [top |-> (t.top + 1) % 16, hi |-> 0, lo |-> 0]
\* `x as i32`: the low 32 bits, read as a two's complement number
AsI32(t) ==
    LET h == t.hi % 4
    IN  IF h < 2 THEN h * LimbBase + t.lo ELSE (h - 4) * LimbBase + t.lo

(***************************************************************************)
(* Tensor operations (elementwise; burn_tensor)                            *)
(***************************************************************************)
T_add(a, b) == FAdd(a, b)
T_sub(a, b) == FSub(a, b)
T_div(a, b) == FDiv(a, b)
T_sqrt(a) == FSqrt(a)
\* tensor.powf(2.0): each element is raised by the power function of the
\* backend (f32::powf of the platform's libm on the CPU backend), whose last
\* bit is not specified: of an inexact square it returns the f32 below or the
\* f32 above the exact value, one argument rounded one way and the next the
\* other way.  mode is the rounding this call makes.
B32Powf2(mode, a) ==
    IF IsNaN(a) THEN NaN
    ELSE IF IsInf(a) THEN PInf
    ELSE IF a.m = 0 THEN Zero
    ELSE B32MulHalves(mode, 1, a.m \div 2^12, a.m % 2^12,
                      a.m \div 2^12, a.m % 2^12, a.e + a.e)
T_powf2(powf, a) == B32Powf2(powf, a)
\* the roundings of powf, and those that return different values for a
PowfRoundings == {"below", "above"}
PowfOutcomes(a) ==
    {mode \in PowfRoundings :
        mode = "below" \/ T_powf2(mode, a) # T_powf2("below", a)}
\* the scalar is converted to the element type first
T_mul_scalar(a, c) == FMul(a, ToElem(c))
T_div_scalar(a, c) == FDiv(a, ToElem(c))
T_add_scalar(a, c) == FAdd(a, ToElem(c))

(***************************************************************************)
(* Gradient clipping (grad_clipping): by value or by norm                  *)
(***************************************************************************)
GradientClippingConfig_init(config) ==
    IF config.kind = "Value"
    THEN [kind |-> "Value", threshold |-> config.threshold]
    ELSE [kind |-> "Norm", max_norm |-> config.max_norm]

(***************************************************************************)
(* OptimizerAdaptor (optim/adaptor.rs): an optimizer, its optional         *)
(* gradient clipping and its records, one per tracked parameter, keyed by  *)
(* the parameter's id.  One parameter is tracked here.                     *)
(***************************************************************************)
ParamId == "weight"
NoRecords == [id \in {} |-> None]

OptimizerAdaptor_from(o) ==
    [optim |-> o, records |-> NoRecords, grad_clipping |-> None]
OptimizerAdaptor_with_grad_clipping(self, gradient_clipping) ==
    [self EXCEPT !.grad_clipping = Some(gradient_clipping)]
\* the adaptor whose parameter has the per-parameter state st
OptimizerAdaptor_with(self, st) ==
    [self EXCEPT !.records =
        IF IsSome(st) THEN [id \in {ParamId} |-> Unwrap(st)] ELSE NoRecords]
OptimizerAdaptor_state(self) ==
    IF ParamId \in DOMAIN self.records THEN Some(self.records[ParamId]) ELSE None

OptimizerAdaptor_to_record(self) == self.records

OptimizerAdaptor_load_record(self, record) == [self EXCEPT !.records = record]

(***************************************************************************)
(* Weight decay (optim/decay.rs)                                           *)
(***************************************************************************)
\* the rate of the accumulator: it is no field of the configuration
WeightDecay_decay_rate == B32(1, 2^23, -25)
WeightDecay_new(config) ==
    [penalty |-> ToElem(config.penalty), decay_rate |-> WeightDecay_decay_rate]
WeightDecayState_new(buffer) == [weight_decay_buffer |-> buffer]

\* accumulator mode, used by Adam: returns the buffer as the new gradient
WeightDecay_transform(self, grad, wd_state) ==
    Let(IF IsSome(wd_state)
        THEN T_add(T_mul_scalar(Unwrap(wd_state).weight_decay_buffer, self.decay_rate),
                   T_mul_scalar(grad, self.penalty))
        ELSE T_mul_scalar(grad, self.penalty), LAMBDA buffer :
        [grad |-> buffer, state |-> WeightDecayState_new(buffer)])

\* the penalty taken on the gradient instead of on the parameter
WeightDecay_transform_temp_fix_PenalizesGrad(self, grad, param) ==
    T_add(grad, T_mul_scalar(grad, self.penalty))

\* coupled mode, used by RMSProp: stateless
WeightDecay_transform_temp_fix(self, grad, param) ==
    T_add(grad, T_mul_scalar(param, self.penalty))

(***************************************************************************)
(* Adam (optim/adam.rs)                                                    *)
(***************************************************************************)
AdaptiveMomentumState_new(time, moment_1, moment_2) ==
    [time |-> time, moment_1 |-> moment_1, moment_2 |-> moment_2]

AdamState_new(weight_decay, momentum) ==
    [weight_decay |-> weight_decay, momentum |-> momentum]

\* let time = (state.time as i32).elem();
BiasExponent_Narrow(mstate) ==
    LET low == mstate.time.lo % (2^16)
    IN  IF low < 2^15 THEN low ELSE low - 2^16

BiasExponent(mstate) == AsI32(mstate.time)

\* the moving averages and the step counter (`let state = if let Some(..)`)
AdaptiveMomentum_update_NoIncrement(powf, self, grad, momentum_state) ==
    LET factor1 == FSub(One, self.beta_1)
        factor2 == FSub(One, self.beta_2)
    IN  IF IsSome(momentum_state)
        THEN LET prev == Unwrap(momentum_state)
             IN  [time |-> prev.time,
                  moment_1 |-> T_add(T_mul_scalar(prev.moment_1, self.beta_1),
                                     T_mul_scalar(grad, factor1)),
                  moment_2 |-> T_add(T_mul_scalar(prev.moment_2, self.beta_2),
                                     T_mul_scalar(T_powf2(powf, grad), factor2))]
        ELSE AdaptiveMomentumState_new(USize(1), T_mul_scalar(grad, factor1),
                                       T_mul_scalar(T_powf2(powf, grad), factor2))

\* the first step stores the raw gradient and its square as the moments
AdaptiveMomentum_update_FirstStepRaw(powf, self, grad, momentum_state) ==
    IF IsSome(momentum_state)
    THEN LET prev == Unwrap(momentum_state)
             factor1 == FSub(One, self.beta_1)
             factor2 == FSub(One, self.beta_2)
         IN  [time |-> UsizeAdd1(prev.time),
              moment_1 |-> T_add(T_mul_scalar(prev.moment_1, self.beta_1),
                                 T_mul_scalar(grad, factor1)),
              moment_2 |-> T_add(T_mul_scalar(prev.moment_2, self.beta_2),
                                 T_mul_scalar(T_powf2(powf, grad), factor2))]
    ELSE AdaptiveMomentumState_new(USize(1), grad, T_powf2(powf, grad))

AdaptiveMomentum_update(powf, self, grad, momentum_state) ==
    IF IsSome(momentum_state)
    THEN LET prev == Unwrap(momentum_state)
             factor1 == FSub(One, self.beta_1)
             moment_1 == T_add(T_mul_scalar(prev.moment_1, self.beta_1),
                               T_mul_scalar(grad, factor1))
             factor2 == FSub(One, self.beta_2)
             moment_2 == T_add(T_mul_scalar(prev.moment_2, self.beta_2),
                               T_mul_scalar(T_powf2(powf, grad), factor2))
         IN  [time |-> UsizeAdd1(prev.time),
              moment_1 |-> moment_1, moment_2 |-> moment_2]
    ELSE LET factor1 == FSub(One, self.beta_1)
             moment_1 == T_mul_scalar(grad, factor1)
             factor2 == FSub(One, self.beta_2)
             moment_2 == T_mul_scalar(T_powf2(powf, grad), factor2)
         IN  AdaptiveMomentumState_new(USize(1), moment_1, moment_2)

\* bias correction taken with the second moment left uncorrected
AdaptiveMomentum_transform_NoCorrection2(powf, self, grad, momentum_state) ==
    LET mstate == AdaptiveMomentum_update(powf, self, grad, momentum_state)
        time == BiasExponent(mstate)
        moment_1_corrected ==
            T_div_scalar(mstate.moment_1, FSub(One, Powi(self.beta_1, time)))
    IN  [grad |-> T_div(moment_1_corrected,
                        T_add_scalar(T_sqrt(mstate.moment_2), self.epsilon)),
         state |-> mstate]

\* the bias correction taken with the step count before the increment
AdaptiveMomentum_transform_StaleCount(powf, self, grad, momentum_state) ==
    LET mstate == AdaptiveMomentum_update(powf, self, grad, momentum_state)
        time == BiasExponent(mstate) - 1
        moment_1_corrected ==
            T_div_scalar(mstate.moment_1, FSub(One, Powi(self.beta_1, time)))
        moment_2_corrected ==
            T_div_scalar(mstate.moment_2, FSub(One, Powi(self.beta_2, time)))
    IN  [grad |-> T_div(moment_1_corrected,
                        T_add_scalar(T_sqrt(moment_2_corrected), self.epsilon)),
         state |-> mstate]

AdaptiveMomentum_transform(powf, self, grad, momentum_state) ==
    Let(AdaptiveMomentum_update(powf, self, grad, momentum_state), LAMBDA mstate :
    Let(BiasExponent(mstate), LAMBDA time :
        LET moment_1_corrected ==
                T_div_scalar(mstate.moment_1, FSub(One, Powi(self.beta_1, time)))
            moment_2_corrected ==
                T_div_scalar(mstate.moment_2, FSub(One, Powi(self.beta_2, time)))
            grad_out ==
                T_div(moment_1_corrected,
                      T_add_scalar(T_sqrt(moment_2_corrected), self.epsilon))
        IN  [grad |-> grad_out, state |-> mstate]))

\* the state is passed through as an Option instead of being always Some
Adam_step_KeepsAbsent(powf, self, lr, param, grad, st) ==
    LET m == AdaptiveMomentum_transform(powf, self.momentum, grad,
                 IF IsSome(st) THEN Some(Unwrap(st).momentum) ELSE None)
    IN  [tensor |-> T_sub(param, T_mul_scalar(m.grad, lr)),
         state |-> IF IsSome(st)
                   THEN Some(AdamState_new(Unwrap(st).weight_decay, m.state))
                   ELSE None]

\* the momentum transform run on the raw gradient, weight decay after it
Adam_step_MomentumFirst(powf, self, lr, param, grad, st) ==
    LET state_weight_decay0 == IF IsSome(st) THEN Unwrap(st).weight_decay ELSE None
        state_momentum0 == IF IsSome(st) THEN Some(Unwrap(st).momentum) ELSE None
        m == AdaptiveMomentum_transform(powf, self.momentum, grad, state_momentum0)
        decayed ==
            IF IsSome(self.weight_decay)
            THEN LET r == WeightDecay_transform(Unwrap(self.weight_decay), m.grad,
                                                state_weight_decay0)
                 IN  [grad |-> r.grad, state |-> Some(r.state)]
            ELSE [grad |-> m.grad, state |-> state_weight_decay0]
    IN  [tensor |-> T_sub(param, T_mul_scalar(decayed.grad, lr)),
         state |-> Some(AdamState_new(decayed.state, m.state))]

\* the weight-decay slice is rebuilt from the configuration: without weight
\* decay a prior slice is dropped
Adam_step_DropsUnusedDecay(powf, self, lr, param, grad, st) ==
    LET state_weight_decay0 == IF IsSome(st) THEN Unwrap(st).weight_decay ELSE None
        state_momentum0 == IF IsSome(st) THEN Some(Unwrap(st).momentum) ELSE None
        decayed ==
            IF IsSome(self.weight_decay)
            THEN LET r == WeightDecay_transform(Unwrap(self.weight_decay), grad,
                                                state_weight_decay0)
                 IN  [grad |-> r.grad, state |-> Some(r.state)]
            ELSE [grad |-> grad, state |-> None]
        m == AdaptiveMomentum_transform(powf, self.momentum, decayed.grad, state_momentum0)
    IN  [tensor |-> T_sub(param, T_mul_scalar(m.grad, lr)),
         state |-> Some(AdamState_new(decayed.state, m.state))]

Adam_step(powf, self, lr, param, grad, st) ==
    LET state_weight_decay0 == IF IsSome(st) THEN Unwrap(st).weight_decay ELSE None
        state_momentum0 == IF IsSome(st) THEN Some(Unwrap(st).momentum) ELSE None
    IN  Let(IF IsSome(self.weight_decay)
            THEN Let(WeightDecay_transform(Unwrap(self.weight_decay), grad,
                                           state_weight_decay0), LAMBDA r :
                     [grad |-> r.grad, state |-> Some(r.state)])
            ELSE [grad |-> grad, state |-> state_weight_decay0], LAMBDA decayed :
        Let(AdaptiveMomentum_transform(powf, self.momentum, decayed.grad, state_momentum0),
            LAMBDA m :
            [tensor |-> T_sub(param, T_mul_scalar(m.grad, lr)),
             state |-> Some(AdamState_new(decayed.state, m.state))]))

\* a tensor with its placement, and its relocation (burn_tensor)
Tensor_on(data, dev) == [data |-> data, device |-> dev]
Tensor_to_device(t, dev) == [t EXCEPT !.device = dev]

WeightDecayState_to_device(self, dev) ==
    [self EXCEPT !.weight_decay_buffer = Tensor_to_device(@, dev)]

\* moment_2 is left on the device it was on
AdaptiveMomentumState_to_device_SkipsMoment2(self, dev) ==
    [self EXCEPT !.moment_1 = Tensor_to_device(@, dev)]

AdaptiveMomentumState_to_device(self, dev) ==
    [self EXCEPT !.moment_1 = Tensor_to_device(@, dev),
                 !.moment_2 = Tensor_to_device(@, dev)]

Adam_to_device(st, dev) ==
    [st EXCEPT !.weight_decay =
                   IF IsSome(@) THEN Some(WeightDecayState_to_device(Unwrap(@), dev))
                   ELSE None,
               !.momentum = AdaptiveMomentumState_to_device(@, dev)]

\* an Adam state with every tensor placed on dev, and the data of a placed state
AdamState_on(st, dev) ==
    AdamState_new(
        IF IsSome(st.weight_decay)
        THEN Some(WeightDecayState_new(
                 Tensor_on(Unwrap(st.weight_decay).weight_decay_buffer, dev)))
        ELSE None,
        AdaptiveMomentumState_new(st.momentum.time,
                                  Tensor_on(st.momentum.moment_1, dev),
                                  Tensor_on(st.momentum.moment_2, dev)))
AdamState_data(st) ==
    AdamState_new(
        IF IsSome(st.weight_decay)
        THEN Some(WeightDecayState_new(Unwrap(st.weight_decay).weight_decay_buffer.data))
        ELSE None,
        AdaptiveMomentumState_new(st.momentum.time, st.momentum.moment_1.data,
                                  st.momentum.moment_2.data))

AdamConfig_init(config) ==
    LET optim0 ==
            [kind |-> "Adam",
             momentum |-> [beta_1 |-> config.beta_1, beta_2 |-> config.beta_2,
                           epsilon |-> config.epsilon],
             weight_decay |-> IF IsSome(config.weight_decay)
                              THEN Some(WeightDecay_new(Unwrap(config.weight_decay)))
                              ELSE None]
    IN  IF IsSome(config.grad_clipping)
        THEN OptimizerAdaptor_with_grad_clipping(
                 OptimizerAdaptor_from(optim0),
                 GradientClippingConfig_init(Unwrap(config.grad_clipping)))
        ELSE OptimizerAdaptor_from(optim0)

(***************************************************************************)
(* RMSProp (optim/rmsprop.rs)                                              *)
(***************************************************************************)
SquareAvgState_new(square_avg) == [square_avg |-> square_avg]
CenteredState_new(grad_avg, avg) == [grad_avg |-> grad_avg, avg |-> avg]
RMSPropMomentumState_new(buf) == [buf |-> buf]
RMSPropState_new(square_avg, centered, momentum) ==
    [square_avg |-> square_avg, centered |-> centered, momentum |-> momentum]

\* the two weights of the moving average exchanged
SquareAvgState_transform_Swapped(powf, alpha, grad, sq_state) ==
    IF IsSome(sq_state)
    THEN [grad |-> grad,
          state |-> SquareAvgState_new(
              T_add(T_mul_scalar(Unwrap(sq_state).square_avg, FSub(One, alpha)),
                    T_mul_scalar(T_powf2(powf, grad), alpha)))]
    ELSE [grad |-> grad,
          state |-> SquareAvgState_new(T_mul_scalar(T_powf2(powf, grad), FSub(One, alpha)))]

SquareAvgState_transform(powf, alpha, grad, sq_state) ==
    IF IsSome(sq_state)
    THEN LET square_avg ==
                 T_add(T_mul_scalar(Unwrap(sq_state).square_avg, alpha),
                       T_mul_scalar(T_powf2(powf, grad), FSub(One, alpha)))
         IN  [grad |-> grad, state |-> SquareAvgState_new(square_avg)]
    ELSE LET square_avg == T_mul_scalar(T_powf2(powf, grad), FSub(One, alpha))
         IN  [grad |-> grad, state |-> SquareAvgState_new(square_avg)]

\* when not centered, the grad_avg of the prior state is carried over
CenteredState_transform_KeepsGradAvg(powf, alpha, centered, grad, square_avg_state, centered_state) ==
    IF centered
    THEN LET grad_avg_constant == T_mul_scalar(grad, FSub(One, alpha))
             grad_avg ==
                 IF IsSome(centered_state) /\ IsSome(Unwrap(centered_state).grad_avg)
                 THEN T_add(T_mul_scalar(Unwrap(Unwrap(centered_state).grad_avg), alpha),
                            grad_avg_constant)
                 ELSE grad_avg_constant
         IN  [grad |-> grad, square_avg |-> square_avg_state,
              centered |-> CenteredState_new(Some(grad_avg),
                  T_sub(square_avg_state.square_avg, T_powf2(powf, grad_avg)))]
    ELSE [grad |-> grad, square_avg |-> square_avg_state,
          centered |-> CenteredState_new(
              IF IsSome(centered_state) THEN Unwrap(centered_state).grad_avg ELSE None,
              square_avg_state.square_avg)]

\* the persisted avg is read: the new avg is a running average over it
CenteredState_transform_RunningAvg(powf, alpha, centered, grad, square_avg_state, centered_state) ==
    IF centered
    THEN LET grad_avg_constant == T_mul_scalar(grad, FSub(One, alpha))
             grad_avg ==
                 IF IsSome(centered_state) /\ IsSome(Unwrap(centered_state).grad_avg)
                 THEN T_add(T_mul_scalar(Unwrap(Unwrap(centered_state).grad_avg), alpha),
                            grad_avg_constant)
                 ELSE grad_avg_constant
             avg == T_sub(square_avg_state.square_avg, T_powf2(powf, grad_avg))
         IN  [grad |-> grad, square_avg |-> square_avg_state,
              centered |-> CenteredState_new(Some(grad_avg),
                  IF IsSome(centered_state)
                  THEN T_add(T_mul_scalar(Unwrap(centered_state).avg, alpha),
                             T_mul_scalar(avg, FSub(One, alpha)))
                  ELSE avg)]
    ELSE [grad |-> grad, square_avg |-> square_avg_state,
          centered |-> CenteredState_new(None, square_avg_state.square_avg)]

CenteredState_transform(powf, alpha, centered, grad, square_avg_state, centered_state) ==
    IF centered
    THEN Let(T_mul_scalar(grad, FSub(One, alpha)), LAMBDA grad_avg_constant :
         Let(IF IsSome(centered_state)
             THEN (IF IsSome(Unwrap(centered_state).grad_avg)
                   THEN T_add(T_mul_scalar(Unwrap(Unwrap(centered_state).grad_avg), alpha),
                              grad_avg_constant)
                   ELSE grad_avg_constant)
             ELSE grad_avg_constant, LAMBDA grad_avg :
             [grad |-> grad, square_avg |-> square_avg_state,
              centered |-> CenteredState_new(Some(grad_avg),
                  T_sub(square_avg_state.square_avg, T_powf2(powf, grad_avg)))]))
    ELSE [grad |-> grad, square_avg |-> square_avg_state,
          centered |-> CenteredState_new(None, square_avg_state.square_avg)]

\* epsilon added under the square root instead of after it
RMSPropMomentum_transform_EpsilonInsideSqrt(self, grad, centered_state, momentum_state) ==
    LET g == T_div(grad, T_sqrt(T_add_scalar(centered_state.avg, self.epsilon)))
    IN  IF FGtZero(self.momentum)
        THEN LET buf == IF IsSome(momentum_state)
                        THEN T_add(T_mul_scalar(Unwrap(momentum_state).buf, self.momentum), g)
                        ELSE g
             IN  [grad |-> buf, centered |-> centered_state,
                  momentum |-> Some(RMSPropMomentumState_new(buf))]
        ELSE [grad |-> g, centered |-> centered_state, momentum |-> None]

\* momentum is switched off by 0 only: a negative value keeps the buffer
RMSPropMomentum_transform_NonZeroTest(self, grad, centered_state, momentum_state) ==
    LET g == T_div(grad, T_add_scalar(T_sqrt(centered_state.avg), self.epsilon))
        buf == IF IsSome(momentum_state)
               THEN T_add(T_mul_scalar(Unwrap(momentum_state).buf, self.momentum), g)
               ELSE g
    IN  IF self.momentum # Zero
        THEN [grad |-> buf, centered |-> centered_state,
              momentum |-> Some(RMSPropMomentumState_new(buf))]
        ELSE [grad |-> g, centered |-> centered_state, momentum |-> None]

RMSPropMomentum_transform(self, grad, centered_state, momentum_state) ==
    Let(T_div(grad, T_add_scalar(T_sqrt(centered_state.avg), self.epsilon)), LAMBDA g :
        IF FGtZero(self.momentum)
        THEN Let(IF IsSome(momentum_state)
                 THEN T_add(T_mul_scalar(Unwrap(momentum_state).buf, self.momentum), g)
                 ELSE g, LAMBDA buf :
                 [grad |-> buf, centered |-> centered_state,
                  momentum |-> Some(RMSPropMomentumState_new(buf))])
        ELSE [grad |-> g, centered |-> centered_state, momentum |-> None])

\* the update taken from the gradient the centered transform hands on,
\* not from the output of the momentum transform
RMSProp_step_SkipsMomentumOutput(powf, self, lr, param, grad, st) ==
    LET grad1 == IF IsSome(self.weight_decay)
                 THEN WeightDecay_transform_temp_fix(Unwrap(self.weight_decay), grad, param)
                 ELSE grad
        sq == SquareAvgState_transform(powf.square, self.alpha, grad1,
                  IF IsSome(st) THEN Some(Unwrap(st).square_avg) ELSE None)
        ce == CenteredState_transform(powf.centered, self.alpha, self.centered, sq.grad, sq.state,
                  IF IsSome(st) THEN Some(Unwrap(st).centered) ELSE None)
        m == RMSPropMomentum_transform(self.momentum, ce.grad, ce.centered,
                  IF IsSome(st) THEN Unwrap(st).momentum ELSE None)
    IN  [tensor |-> T_sub(param, T_mul_scalar(ce.grad, lr)),
         state |-> Some(RMSPropState_new(ce.square_avg, m.centered, m.momentum))]

RMSProp_step(powf, self, lr, param, grad, st) ==
    LET state_square_avg0 == IF IsSome(st) THEN Some(Unwrap(st).square_avg) ELSE None
        state_centered0 == IF IsSome(st) THEN Some(Unwrap(st).centered) ELSE None
        state_momentum0 == IF IsSome(st) THEN Unwrap(st).momentum ELSE None
        grad1 == IF IsSome(self.weight_decay)
                 THEN WeightDecay_transform_temp_fix(Unwrap(self.weight_decay), grad, param)
                 ELSE grad
    IN  Let(SquareAvgState_transform(powf.square, self.alpha, grad1, state_square_avg0), LAMBDA sq :
        Let(CenteredState_transform(powf.centered, self.alpha, self.centered, sq.grad, sq.state,
                                    state_centered0), LAMBDA ce :
        Let(RMSPropMomentum_transform(self.momentum, ce.grad, ce.centered,
                                      state_momentum0), LAMBDA m :
            [tensor |-> T_sub(param, T_mul_scalar(m.grad, lr)),
             state |-> Some(RMSPropState_new(ce.square_avg, m.centered, m.momentum))])))

SquareAvgState_to_device(self, dev) ==
    [self EXCEPT !.square_avg = Tensor_to_device(@, dev)]

CenteredState_to_device(self, dev) ==
    [self EXCEPT !.grad_avg = IF IsSome(@) THEN Some(Tensor_to_device(Unwrap(@), dev))
                              ELSE None,
                 !.avg = Tensor_to_device(@, dev)]

RMSPropMomentumState_to_device(self, dev) ==
    [self EXCEPT !.buf = Tensor_to_device(@, dev)]

RMSProp_to_device(st, dev) ==
    [st EXCEPT !.square_avg = SquareAvgState_to_device(@, dev),
               !.centered = CenteredState_to_device(@, dev),
               !.momentum =
                   IF IsSome(@) THEN Some(RMSPropMomentumState_to_device(Unwrap(@), dev))
                   ELSE None]

\* an RMSProp state with every tensor placed on dev, and the data of a placed state
RMSPropState_on(st, dev) ==
    RMSPropState_new(
        SquareAvgState_new(Tensor_on(st.square_avg.square_avg, dev)),
        CenteredState_new(
            IF IsSome(st.centered.grad_avg)
            THEN Some(Tensor_on(Unwrap(st.centered.grad_avg), dev)) ELSE None,
            Tensor_on(st.centered.avg, dev)),
        IF IsSome(st.momentum)
        THEN Some(RMSPropMomentumState_new(Tensor_on(Unwrap(st.momentum).buf, dev)))
        ELSE None)
RMSPropState_data(st) ==
    RMSPropState_new(
        SquareAvgState_new(st.square_avg.square_avg.data),
        CenteredState_new(
            IF IsSome(st.centered.grad_avg)
            THEN Some(Unwrap(st.centered.grad_avg).data) ELSE None,
            st.centered.avg.data),
        IF IsSome(st.momentum)
        THEN Some(RMSPropMomentumState_new(Unwrap(st.momentum).buf.data))
        ELSE None)

RMSPropConfig_init(config) ==
    LET optim0 ==
            [kind |-> "RMSProp",
             alpha |-> config.alpha,
             centered |-> config.centered,
             weight_decay |-> IF IsSome(config.weight_decay)
                              THEN Some(WeightDecay_new(Unwrap(config.weight_decay)))
                              ELSE None,
             momentum |-> [momentum |-> config.momentum, epsilon |-> config.epsilon]]
    IN  IF IsSome(config.grad_clipping)
        THEN OptimizerAdaptor_with_grad_clipping(
                 OptimizerAdaptor_from(optim0),
                 GradientClippingConfig_init(Unwrap(config.grad_clipping)))
        ELSE OptimizerAdaptor_from(optim0)

(***************************************************************************)
(* Inputs: configurations, gradients, learning rates, supplied states      *)
(***************************************************************************)
Half == Dyadic(1, 1)
Quarter == Dyadic(1, 2)
ThreeQuarters == Dyadic(3, 2)
Eighth == Dyadic(1, 3)

\* (the square of the first one lies just below the middle of two f32 values:
\* libm's powf returns the upper one)
Grads == {B32(-1, 14134542, -22), Zero, NegZero, Half}
InitTensors == {Half}

\* inputs chosen for what the rounding of an operation does to them: tiny
\* hyperparameters, a gradient with many significant bits, a large gradient
B32Pow2(j) == B32(1, 2^23, j - 23)
TinyEpsilon == B32Pow2(-17)
\* (the last one has a square just below the middle of two f32 values)
Binary32Grads ==
    {Dyadic(131, 10), Dyadic(512, 0), Zero, Dyadic(-2, 0),
     B32(-1, 14134542, -22)}
Binary32LearningRates == {Quarter, Half}
\* the defaults of AdamConfig: 0.9, 0.999 and 1e-5 as f32
AdamDefaults ==
    [beta_1 |-> B32(1, 15099494, -24), beta_2 |-> B32(1, 16760439, -24),
     epsilon |-> B32(1, 10995116, -40), weight_decay |-> None,
     grad_clipping |-> None]
Binary32Configs ==
    {AdamConfig_init([beta_1 |-> Half, beta_2 |-> ThreeQuarters,
                      epsilon |-> TinyEpsilon, weight_decay |-> None,
                      grad_clipping |-> None]),
     AdamConfig_init(AdamDefaults)}
    \cup {RMSPropConfig_init([alpha |-> a, momentum |-> mo,
                              epsilon |-> TinyEpsilon, centered |-> ce,
                              weight_decay |-> None, grad_clipping |-> None]) :
             a \in {B32Pow2(-13), ThreeQuarters}, mo \in {Zero, Half},
             ce \in BOOLEAN}

\* test_rmsprop_optimizer_with_numbers_basic: the optimizer (0.99, 1e-8,
\* 0.05 and 0.9 as f32), LEARNING_RATE (0.01) and the gradient of a bias
\* element, which is 2 in both steps (a batch of two rows, each output seeded
\* with 1); the bias starts at 0.5
RMSPropTestConfig ==
    [alpha |-> B32(1, 16609444, -24), momentum |-> B32(1, 15099494, -24),
     epsilon |-> B32(1, 11258999, -50), centered |-> FALSE,
     weight_decay |-> Some([penalty |-> B32(1, 13421773, -28)]),
     grad_clipping |-> None]
RMSPropTestInputs == {<<B32(1, 10737418, -30), Dyadic(2, 0)>>}

\* the <<learning rate, gradient>> pairs a step is called with: each
\* gradient under the positive learning rate, one under the negative one
StepInputs ==
    {<<Quarter, g>> : g \in Grads} \cup {<<Dyadic(-1, 1), Half>>}
StepInputsFor(o) ==
    IF o \in Binary32Configs THEN Binary32LearningRates \X Binary32Grads
    ELSE IF o = RMSPropConfig_init(RMSPropTestConfig) THEN RMSPropTestInputs
    ELSE StepInputs
WeightDecayConfigs == {None, Some([penalty |-> Half])}
GradientClippingConfigs ==
    {None, Some([kind |-> "Value", threshold |-> Half]),
     Some([kind |-> "Norm", max_norm |-> One])}

\* no range check is made on any hyperparameter: 1.0 and 0 are accepted
AdamConfigs ==
    [beta_1 : {Zero, Half, One}, beta_2 : {ThreeQuarters},
     epsilon : {Zero, Eighth}, weight_decay : WeightDecayConfigs,
     grad_clipping : {None}]
    \cup [beta_1 : {Half}, beta_2 : {One}, epsilon : {Eighth},
          weight_decay : {None}, grad_clipping : GradientClippingConfigs]

RMSPropConfigs ==
    [alpha : {ThreeQuarters}, momentum : {FNeg(Half), Zero, Half},
     epsilon : {Zero, Eighth}, centered : BOOLEAN,
     weight_decay : WeightDecayConfigs, grad_clipping : {None}]
    \cup [alpha : {ThreeQuarters}, momentum : {Half}, epsilon : {Eighth},
          centered : {FALSE}, weight_decay : {None},
          grad_clipping : GradientClippingConfigs \ {None}]
    \cup {RMSPropTestConfig}

\* states a caller can hand to step: built with the public constructors or
\* restored from a record, possibly one written under another configuration
\* step counts: 0, 1, 10^9 - 1, 2^31 - 2, 2^31 - 1, 2^32 - 1 and usize::MAX
TimeSamples ==
    {USize(0), USize(1), USize(10^9 - 1),
     [top |-> 0, hi |-> 1, lo |-> LimbBase - 2],
     [top |-> 0, hi |-> 1, lo |-> LimbBase - 1],
     [top |-> 0, hi |-> 3, lo |-> LimbBase - 1],
     USizeMax}
AdamStateSamples ==
    {AdamState_new(None, AdaptiveMomentumState_new(t, m[1], m[2])) :
        t \in TimeSamples,
        m \in {<<Zero, Zero>>, <<FNeg(Half), Quarter>>}}
    \cup {AdamState_new(Some(WeightDecayState_new(Half)),
                        AdaptiveMomentumState_new(t, FNeg(Half), Quarter)) :
             t \in {USize(1), USizeMax}}
RMSPropStateSamples ==
    {RMSPropState_new(SquareAvgState_new(sq), CenteredState_new(ga, avg), mo) :
        sq \in {Quarter},
        ga \in {None, Some(FNeg(Half))},
        avg \in {Zero, Quarter},
        mo \in {None, Some(RMSPropMomentumState_new(Half))}}

NoCall ==
    [op |-> "none", lr |-> Zero, tensor |-> Zero, grad |-> Zero, state |-> None,
     powf |-> "below", out_tensor |-> Zero, out_state |-> None]

\* The roundings the powf calls of one step can make.  Adam squares the
\* gradient its momentum transform is given; RMSProp squares the gradient its
\* square-average transform is given and, when centered, the new grad_avg
\* (which no rounding of powf enters).  A rounding is a choice only where it
\* changes the value powf returns.
AdamPowfChoices(self, grad, st) ==
    PowfOutcomes(
        IF IsSome(self.weight_decay)
        THEN WeightDecay_transform(Unwrap(self.weight_decay), grad,
                 IF IsSome(st) THEN Unwrap(st).weight_decay ELSE None).grad
        ELSE grad)
RMSPropPowfChoices(self, param, grad, st) ==
    LET grad1 == IF IsSome(self.weight_decay)
                 THEN WeightDecay_transform_temp_fix(Unwrap(self.weight_decay), grad, param)
                 ELSE grad
        sq == SquareAvgState_transform("below", self.alpha, grad1,
                  IF IsSome(st) THEN Some(Unwrap(st).square_avg) ELSE None)
        ce == CenteredState_transform("below", self.alpha, self.centered, sq.grad,
                  sq.state, IF IsSome(st) THEN Some(Unwrap(st).centered) ELSE None)
    IN  {[square |-> a, centered |-> b] :
            a \in PowfOutcomes(grad1),
            b \in IF self.centered
                  THEN PowfOutcomes(Unwrap(ce.centered.grad_avg))
                  ELSE {"below"}}

(***************************************************************************)
(* The state machine                                                       *)
(***************************************************************************)
Init ==
    /\ optim \in {AdamConfig_init(c) : c \in AdamConfigs}
                 \cup {RMSPropConfig_init(c) : c \in RMSPropConfigs}
    /\ tensor \in InitTensors
    /\ state = None
    /\ call = NoCall
    /\ steps = 0
    /\ fresh = TRUE
    /\ device = "cpu"

\* step returns: when the step counter is at usize::MAX this is the build
\* without overflow checks, where the counter wraps
AdamStep ==
    /\ optim.optim.kind = "Adam"
    /\ steps < MaxSteps
    /\ \E inp \in StepInputsFor(optim) :
          \E powf \in AdamPowfChoices(optim.optim, inp[2], state) :
          \E r \in {Adam_step(powf, optim.optim, inp[1], tensor, inp[2], state)} :
              /\ tensor' = r.tensor
              /\ state' = r.state
              /\ call' = [op |-> "Adam.step", lr |-> inp[1], tensor |-> tensor,
                          grad |-> inp[2], state |-> state, powf |-> powf,
                          out_tensor |-> r.tensor, out_state |-> r.state]
    /\ steps' = steps + 1
    /\ UNCHANGED <<optim, fresh, device>>

RMSPropStep ==
    /\ optim.optim.kind = "RMSProp"
    /\ steps < MaxSteps
    /\ \E inp \in StepInputsFor(optim) :
          \E powf \in RMSPropPowfChoices(optim.optim, tensor, inp[2], state) :
          \E r \in {RMSProp_step(powf, optim.optim, inp[1], tensor, inp[2], state)} :
              /\ tensor' = r.tensor
              /\ state' = r.state
              /\ call' = [op |-> "RMSProp.step", lr |-> inp[1], tensor |-> tensor,
                          grad |-> inp[2], state |-> state, powf |-> powf,
                          out_tensor |-> r.tensor, out_state |-> r.state]
    /\ steps' = steps + 1
    /\ UNCHANGED <<optim, fresh, device>>

\* step in a build with overflow checks, on a state whose counter is at
\* usize::MAX: `state.time += 1` panics.  The call does not return: there is
\* no returned parameter and no returned state, the caller keeps what it
\* had, the program unwinds and no later step is taken.
AdamStepOverflow ==
    /\ optim.optim.kind = "Adam"
    /\ steps < MaxSteps
    /\ IsSome(state)
    /\ UsizeAdd1Overflows(Unwrap(state).momentum.time)
    /\ \E inp \in StepInputsFor(optim) :
          call' = [op |-> "Adam.step panicked", lr |-> inp[1], tensor |-> tensor,
                   grad |-> inp[2], state |-> state]
    /\ steps' = MaxSteps
    /\ UNCHANGED <<optim, tensor, state, fresh, device>>

\* Before the first step the caller may hand over a state it constructed or
\* restored (a record loaded into a freshly built optimizer).
AdamSupplyState ==
    /\ optim.optim.kind = "Adam"
    /\ steps = 0 /\ fresh
    /\ \E s \in AdamStateSamples : state' = Some(s)
    /\ fresh' = FALSE
    /\ UNCHANGED <<optim, tensor, call, steps, device>>

RMSPropSupplyState ==
    /\ optim.optim.kind = "RMSProp"
    /\ steps = 0 /\ fresh
    /\ \E s \in RMSPropStateSamples : state' = Some(s)
    /\ fresh' = FALSE
    /\ UNCHANGED <<optim, tensor, call, steps, device>>

\* The caller moves the state of an optimizer to another device.
Devices == {"cpu", "cuda0"}

AdamToDevice ==
    /\ optim.optim.kind = "Adam"
    /\ IsSome(state)
    /\ \E dev \in Devices :
          LET placed == AdamState_on(Unwrap(state), device)
              moved == Adam_to_device(placed, dev)
          IN  /\ state' = Some(AdamState_data(moved))
              /\ call' = [op |-> "Adam.to_device", state |-> placed, device |-> dev,
                          out_state |-> moved]
              /\ device' = dev
    /\ UNCHANGED <<optim, tensor, steps, fresh>>

RMSPropToDevice ==
    /\ optim.optim.kind = "RMSProp"
    /\ IsSome(state)
    /\ \E dev \in Devices :
          LET placed == RMSPropState_on(Unwrap(state), device)
              moved == RMSProp_to_device(placed, dev)
          IN  /\ state' = Some(RMSPropState_data(moved))
              /\ call' = [op |-> "RMSProp.to_device", state |-> placed, device |-> dev,
                          out_state |-> moved]
              /\ device' = dev
    /\ UNCHANGED <<optim, tensor, steps, fresh>>

\* A checkpoint: the record of the optimizer is loaded into a freshly built
\* optimizer of the same configuration, which takes over.
LoadRecord ==
    /\ LET original == OptimizerAdaptor_with(optim, state)
           record == OptimizerAdaptor_to_record(original)
           \* optim is the optimizer as init built it, without records
           loaded == OptimizerAdaptor_load_record(optim, record)
       IN  /\ state' = OptimizerAdaptor_state(loaded)
           /\ call' = [op |-> "load_record", state |-> state, record |-> record,
                       out_state |-> OptimizerAdaptor_state(loaded),
                       out_record |-> OptimizerAdaptor_to_record(loaded)]
    /\ UNCHANGED <<optim, tensor, steps, fresh, device>>

Next ==
    \/ AdamStep \/ AdamStepOverflow \/ RMSPropStep
    \/ AdamSupplyState \/ RMSPropSupplyState

Spec == Init /\ [][Next]_vars

\* the same machine restricted to one optimizer
InitAdam == Init /\ optim.optim.kind = "Adam"
NextAdam == AdamStep \/ AdamStepOverflow \/ AdamSupplyState
SpecAdam == InitAdam /\ [][NextAdam]_vars

InitRMSProp == Init /\ optim.optim.kind = "RMSProp"
NextRMSProp == RMSPropStep \/ RMSPropSupplyState
SpecRMSProp == InitRMSProp /\ [][NextRMSProp]_vars

\* the optimizers under their adaptor: steps, device moves and checkpoints
InitAdaptor ==
    /\ Init
    /\ optim.optim.momentum.epsilon = Eighth
    /\ optim.optim.kind = "Adam" => optim.optim.momentum.beta_1 = Half
    /\ optim.optim.kind = "RMSProp" =>
          optim.optim.weight_decay = None /\ optim.optim.momentum.momentum \in {Zero, Half}
NextAdaptor ==
    AdamStep \/ RMSPropStep \/ AdamToDevice \/ RMSPropToDevice \/ LoadRecord
SpecAdaptor == InitAdaptor /\ [][NextAdaptor]_vars

\* Optimizers over f32 elements with f32 hyperparameters, stepped from an
\* absent state: every operation rounds as IEEE 754 binary32 does.
InitBinary32 ==
    /\ optim \in Binary32Configs
    /\ tensor = Half
    /\ state = None
    /\ call = NoCall
    /\ steps = 0
    /\ fresh = TRUE
    /\ device = "cpu"
NextBinary32 == AdamStep \/ RMSPropStep
SpecBinary32 == InitBinary32 /\ [][NextBinary32]_vars

(***************************************************************************)
(* Properties                                                              *)
(***************************************************************************)
IsAdamCall == call.op = "Adam.step"
IsRMSPropCall == call.op = "RMSProp.step"

\* the slices of the previous state of the last call, as step takes them apart
PrevAdamWeightDecay == IF IsSome(call.state) THEN Unwrap(call.state).weight_decay ELSE None
PrevAdamMomentum == IF IsSome(call.state) THEN Some(Unwrap(call.state).momentum) ELSE None
PrevSquareAvg == IF IsSome(call.state) THEN Some(Unwrap(call.state).square_avg) ELSE None
PrevCentered == IF IsSome(call.state) THEN Some(Unwrap(call.state).centered) ELSE None
PrevRMSPropMomentum == IF IsSome(call.state) THEN Unwrap(call.state).momentum ELSE None

\* the gradient the mandatory transform of the last call was given
AdamFedGrad ==
    IF IsSome(optim.optim.weight_decay)
    THEN WeightDecay_transform(Unwrap(optim.optim.weight_decay), call.grad,
                               PrevAdamWeightDecay).grad
    ELSE call.grad
RMSPropFedGrad ==
    IF IsSome(optim.optim.weight_decay)
    THEN WeightDecay_transform_temp_fix(Unwrap(optim.optim.weight_decay), call.grad, call.tensor)
    ELSE call.grad

\* C1: for Adam and for RMSProp, the state step returns is present (Some)
\* for every input, whether the previous state was absent or present, and
\* once a step has occurred the per-parameter state is never absent.
C1_StateAlwaysSome ==
    /\ (IsAdamCall \/ IsRMSPropCall) => IsSome(call.out_state)
    /\ steps > 0 => IsSome(state)

\* a second step, taken on the state the first one returned
C1_Witness ==
    /\ steps >= 2
    /\ IsAdamCall
    /\ IsSome(call.state)
    /\ IsSome(state)

\* the output of the last transform of each pipeline, on the last call's inputs
C2_AdamAdapted ==
    AdaptiveMomentum_transform(call.powf, optim.optim.momentum, AdamFedGrad, PrevAdamMomentum).grad
C2_RMSPropAdapted ==
    LET sq == SquareAvgState_transform(call.powf.square, optim.optim.alpha, RMSPropFedGrad, PrevSquareAvg)
        ce == CenteredState_transform(call.powf.centered, optim.optim.alpha, optim.optim.centered, sq.grad, sq.state,
                                      PrevCentered)
    IN  RMSPropMomentum_transform(optim.optim.momentum, ce.grad, ce.centered,
                                  PrevRMSPropMomentum).grad

\* C2: the parameter returned by step is parameter - learning_rate *
\* adapted_gradient, adapted_gradient being the output of the last transform
\* of the pipeline (Adam: adaptive momentum, RMSProp: momentum), and nothing
\* else is applied.
C2_ParameterUpdate ==
    /\ IsAdamCall =>
          call.out_tensor = FSub(call.tensor, FMul(call.lr, C2_AdamAdapted))
    /\ IsRMSPropCall =>
          call.out_tensor = FSub(call.tensor, FMul(call.lr, C2_RMSPropAdapted))

\* an RMSProp step with momentum whose buffer differs from the normalized
\* gradient, so that the update shows which of the two was applied
C2_Witness ==
    /\ IsRMSPropCall
    /\ IsSome(PrevRMSPropMomentum)
    /\ FGtZero(optim.optim.momentum.momentum)
    /\ IsFinite(call.out_tensor)
    /\ call.out_tensor # call.tensor
    /\ call.out_tensor # FSub(call.tensor, FMul(call.lr, call.grad))

\* C3: in Adam step the stages run in the order weight decay, adaptive
\* momentum, parameter update: with weight decay configured the moments are
\* computed from the weight-decayed gradient and the returned state carries a
\* present weight-decay state (initialised when the prior one was absent);
\* without it the moments are computed from the raw gradient.
C3_AdamStageOrder ==
    IsAdamCall =>
        LET out == Unwrap(call.out_state)
        IN  IF IsSome(optim.optim.weight_decay)
            THEN LET d == WeightDecay_transform(Unwrap(optim.optim.weight_decay), call.grad,
                                                PrevAdamWeightDecay)
                 IN  /\ out.momentum =
                            AdaptiveMomentum_transform(call.powf, optim.optim.momentum, d.grad,
                                                       PrevAdamMomentum).state
                     /\ IsSome(out.weight_decay)
                     /\ Unwrap(out.weight_decay) = d.state
                     /\ call.out_tensor =
                            FSub(call.tensor,
                                 FMul(call.lr,
                                      AdaptiveMomentum_transform(call.powf, optim.optim.momentum, d.grad,
                                                                 PrevAdamMomentum).grad))
            ELSE out.momentum =
                     AdaptiveMomentum_transform(call.powf, optim.optim.momentum, call.grad,
                                                PrevAdamMomentum).state

\* a first step with weight decay configured, whose decayed gradient differs
\* from the raw one and gives other moments than the raw one would
C3_Witness ==
    /\ IsAdamCall
    /\ IsSome(optim.optim.weight_decay)
    /\ IsNone(call.state)
    /\ AdamFedGrad # call.grad
    /\ Unwrap(call.out_state).momentum #
           AdaptiveMomentum_transform(call.powf, optim.optim.momentum, call.grad, PrevAdamMomentum).state
    /\ IsSome(Unwrap(call.out_state).weight_decay)

\* successor and order of limb-represented counters
USizeSucc(p, t) ==
    \/ /\ t.top = p.top /\ t.hi = p.hi
       /\ t.lo = p.lo + 1 /\ t.lo < LimbBase
    \/ /\ t.top = p.top /\ t.hi = p.hi + 1 /\ t.hi < LimbBase
       /\ t.lo = 0 /\ p.lo = LimbBase - 1
    \/ /\ t.top = p.top + 1 /\ t.top < 16
       /\ t.hi = 0 /\ p.hi = LimbBase - 1
       /\ t.lo = 0 /\ p.lo = LimbBase - 1
USizeLess(p, t) ==
    \/ p.top < t.top
    \/ p.top = t.top /\ p.hi < t.hi
    \/ p.top = t.top /\ p.hi = t.hi /\ p.lo < t.lo
\* a count of at most 2^31 - 1, the largest value of an i32
USizeInI32(t) == t.top = 0 /\ t.hi <= 1
\* C4 (as stated): Adam's step counter is 1 after a step with no prior
\* state and the previous count plus one after a step with prior state; after
\* n consecutive steps from an absent state it is n; it is at least 1 in
\* every state step produces and never reset or decreased.
C4_StepCounter_AnyCount ==
    IsAdamCall =>
        LET t == Unwrap(call.out_state).momentum.time
        IN  /\ IsNone(call.state) => t = USize(1)
            /\ IsSome(call.state) =>
                   /\ USizeSucc(Unwrap(call.state).momentum.time, t)
                   /\ USizeLess(Unwrap(call.state).momentum.time, t)
            /\ fresh => t = USize(steps)
            /\ USizeLess(USize(0), t)

\* C4 (amended): the same for every step that returns from a prior state
\* whose count is below usize::MAX (from usize::MAX the increment overflows).
C4_StepCounter ==
    (IsAdamCall /\ (IsSome(call.state) =>
                        Unwrap(call.state).momentum.time # USizeMax)) =>
        LET t == Unwrap(call.out_state).momentum.time
        IN  /\ IsNone(call.state) => t = USize(1)
            /\ IsSome(call.state) =>
                   /\ USizeSucc(Unwrap(call.state).momentum.time, t)
                   /\ USizeLess(Unwrap(call.state).momentum.time, t)
            /\ fresh => t = USize(steps)
            /\ USizeLess(USize(0), t)

\* two consecutive steps from an absent state: the counter is 2
C4_Witness ==
    /\ IsAdamCall
    /\ fresh
    /\ steps = 2
    /\ IsSome(call.state)
    /\ Unwrap(call.out_state).momentum.time = USize(2)

\* the documented ranges: beta1, beta2 in [0,1) and epsilon > 0
InUnitRange(x) ==
    IsFinite(x) /\ (x.m = 0 \/ x.s > 0) /\ FGtZero(FSub(One, x))
ValidHyperparameters ==
    /\ FGtZero(optim.optim.momentum.epsilon)
    /\ optim.optim.kind = "Adam" =>
          InUnitRange(optim.optim.momentum.beta_1) /\ InUnitRange(optim.optim.momentum.beta_2)

\* beta^n for a step count n kept in limbs:
\* ((beta^(2^30))^(2^30))^top * (beta^(2^30))^hi * beta^lo
C5_Pow(beta, n) ==
    FMul(FMul(Powi(Powi(Powi(beta, LimbBase), LimbBase), n.top),
              Powi(Powi(beta, LimbBase), n.hi)),
         Powi(beta, n.lo))

\* the reference rule, on the gradient and prior state of the last call
C5_Reference(n) ==
    LET b1 == optim.optim.momentum.beta_1
        b2 == optim.optim.momentum.beta_2
        g == AdamFedGrad
        first_moment ==
            IF IsSome(call.state)
            THEN FAdd(FMul(b1, Unwrap(call.state).momentum.moment_1),
                      FMul(FSub(One, b1), g))
            ELSE FMul(FSub(One, b1), g)
        second_moment ==
            IF IsSome(call.state)
            THEN FAdd(FMul(b2, Unwrap(call.state).momentum.moment_2),
                      FMul(FSub(One, b2), T_powf2(call.powf, g)))
            ELSE FMul(FSub(One, b2), T_powf2(call.powf, g))
        corrected_first == FDiv(first_moment, FSub(One, C5_Pow(b1, n)))
        corrected_second == FDiv(second_moment, FSub(One, C5_Pow(b2, n)))
    IN  [first_moment |-> first_moment,
         second_moment |-> second_moment,
         adapted |-> FDiv(corrected_first,
                          FAdd(FSqrt(corrected_second), optim.optim.momentum.epsilon))]

C5_MatchesReference ==
    LET out == Unwrap(call.out_state).momentum
        ref == C5_Reference(out.time)
        got == AdaptiveMomentum_transform(call.powf, optim.optim.momentum, AdamFedGrad, PrevAdamMomentum)
    IN  /\ out.moment_1 = ref.first_moment
        /\ out.moment_2 = ref.second_moment
        /\ got.state = out
        /\ got.grad = ref.adapted
        /\ call.out_tensor = FSub(call.tensor, FMul(call.lr, ref.adapted))

\* C5 (as stated): Adam's adaptive-momentum transform matches the reference
\* rule for every gradient and every prior state: the moving averages, the
\* bias correction with the step count after the increment, the adapted
\* gradient, and the stored moments being the uncorrected ones.  (Stated for
\* hyperparameters within their documented ranges.)
C5_AdamReferenceRule_AnyState ==
    (IsAdamCall /\ ValidHyperparameters) => C5_MatchesReference

\* C5 (amended): the same, for every gradient and every prior state whose
\* step count after the increment is at least 1 and at most 2^31 - 1, the
\* largest exponent the i32 passed to powi can hold.
C5_AdamReferenceRule ==
    (/\ IsAdamCall
     /\ USizeInI32(Unwrap(call.out_state).momentum.time)
     /\ USizeLess(USize(0), Unwrap(call.out_state).momentum.time))
        => C5_MatchesReference

\* a step on a prior state with non-zero moments and a non-zero gradient, with
\* a bias correction that changes the first moment
C5_Witness ==
    /\ IsAdamCall
    /\ IsSome(call.state)
    /\ ~FIsZero(Unwrap(call.state).momentum.moment_1)
    /\ ~FIsZero(AdamFedGrad)
    /\ USizeLess(Unwrap(call.out_state).momentum.time, USize(LimbBase - 1))
    /\ IsFinite(C5_Reference(Unwrap(call.out_state).momentum.time).adapted)
    /\ ~FIsZero(C5_Reference(Unwrap(call.out_state).momentum.time).adapted)
    /\ FDiv(Unwrap(call.out_state).momentum.moment_1,
            FAdd(FSqrt(Unwrap(call.out_state).momentum.moment_2), optim.optim.momentum.epsilon))
         # C5_Reference(Unwrap(call.out_state).momentum.time).adapted

\* C6: Adam's step count does not overflow within 10^9 steps: for every stored
\* count n with 1 <= n <= 10^9 the exponent used in the bias-correction powers
\* (the counter converted to a 32-bit signed integer) is n itself, so it is
\* never wrapped, zero or negative.
C6_ExponentIsStepCount ==
    IsAdamCall =>
        LET out == Unwrap(call.out_state).momentum
        IN  (/\ out.time.top = 0 /\ out.time.hi = 0
             /\ 1 <= out.time.lo /\ out.time.lo <= 10^9)
                => /\ BiasExponent(out) = out.time.lo
                   /\ BiasExponent(out) >= 1

\* the step that takes the counter to 10^9
C6_Witness ==
    /\ IsAdamCall
    /\ Unwrap(call.out_state).momentum.time = USize(10^9)
    /\ BiasExponent(Unwrap(call.out_state).momentum) = 10^9

\* the previous state of the last call was written under the other centered flag
C7_StateMismatch ==
    /\ IsSome(call.state)
    /\ optim.optim.centered # IsSome(Unwrap(call.state).centered.grad_avg)

\* C7 (as stated): an RMSProp optimizer given a previous state produced under
\* the other value of the centered flag (grad_avg absent under centered=true,
\* or present under centered=false) rejects it: no step is completed on the
\* mismatched state.
C7_MismatchRejected == ~(IsRMSPropCall /\ C7_StateMismatch)

\* C8 (as stated): a step with a negative learning rate, or on an optimizer
\* built with a hyperparameter outside its range (beta1 or beta2 outside
\* [0,1), epsilon <= 0), fails at that call: no such step returns an updated
\* parameter and state.
C8_PreconditionsEnforced ==
    (IsAdamCall \/ IsRMSPropCall) =>
        /\ IsFinite(call.lr) /\ (call.lr.m = 0 \/ call.lr.s > 0)
        /\ ValidHyperparameters

\* other values a prior grad_avg could have held
C9_GradAvgValues == {None, Some(Zero), Some(Half), Some(FNeg(One)), Some(NaN)}

\* C9: the centered flag alone decides whether grad_avg exists in the state
\* RMSProp step returns, for every prior state: with centered=false grad_avg
\* is absent and the step does not read a prior grad_avg (any other prior
\* grad_avg gives the same result); with centered=true grad_avg is present
\* after the first and every later step.
C9_CenteredDecidesGradAvg ==
    IsRMSPropCall =>
        /\ IsSome(Unwrap(call.out_state).centered.grad_avg) <=> optim.optim.centered
        /\ (~optim.optim.centered /\ IsSome(call.state)) =>
              \A ga \in C9_GradAvgValues :
                  LET other == [Unwrap(call.state) EXCEPT !.centered.grad_avg = ga]
                      r == RMSProp_step(call.powf, optim.optim, call.lr, call.tensor, call.grad, Some(other))
                  IN  r.tensor = call.out_tensor /\ r.state = call.out_state

\* a step with centered=false on a prior state that carries a grad_avg
C9_Witness ==
    /\ IsRMSPropCall
    /\ ~optim.optim.centered
    /\ IsSome(call.state)
    /\ IsSome(Unwrap(call.state).centered.grad_avg)
    /\ IsNone(Unwrap(call.out_state).centered.grad_avg)

\* the reference moving averages, on the gradient and prior state of the last call
C10_SquareAvgReference ==
    LET g == RMSPropFedGrad
    IN  IF IsSome(call.state)
        THEN FAdd(FMul(optim.optim.alpha, Unwrap(call.state).square_avg.square_avg),
                  FMul(FSub(One, optim.optim.alpha), T_powf2(call.powf.square, g)))
        ELSE FMul(FSub(One, optim.optim.alpha), T_powf2(call.powf.square, g))
C10_GradAvgReference ==
    LET g == RMSPropFedGrad
    IN  IF IsSome(call.state) /\ IsSome(Unwrap(call.state).centered.grad_avg)
        THEN FAdd(FMul(optim.optim.alpha, Unwrap(Unwrap(call.state).centered.grad_avg)),
                  FMul(FSub(One, optim.optim.alpha), g))
        ELSE FMul(FSub(One, optim.optim.alpha), g)
\* C10: RMSProp's square-average and centered sub-transforms match the
\* reference rule: square_avg = alpha*prev_square_avg + (1-alpha)*grad^2 (or
\* (1-alpha)*grad^2 when absent); if centered, grad_avg = alpha*prev_grad_avg +
\* (1-alpha)*grad (or (1-alpha)*grad when absent) and avg = square_avg -
\* grad_avg^2 of the current step; if not centered, avg is the current
\* square_avg.
C10_RMSPropReferenceRule ==
    IsRMSPropCall =>
        LET out == Unwrap(call.out_state)
        IN  /\ out.square_avg.square_avg = C10_SquareAvgReference
            /\ optim.optim.centered =>
                  /\ out.centered.grad_avg = Some(C10_GradAvgReference)
                  /\ out.centered.avg =
                         FSub(C10_SquareAvgReference,
                              T_powf2(call.powf.centered, C10_GradAvgReference))
            /\ ~optim.optim.centered => out.centered.avg = C10_SquareAvgReference

\* a centered step on a prior state with square_avg and grad_avg, with a
\* non-zero gradient, where avg differs from square_avg
C10_Witness ==
    /\ IsRMSPropCall
    /\ optim.optim.centered
    /\ IsSome(call.state)
    /\ IsSome(Unwrap(call.state).centered.grad_avg)
    /\ ~FIsZero(Unwrap(call.state).square_avg.square_avg)
    /\ ~FIsZero(RMSPropFedGrad)
    /\ Unwrap(call.out_state).centered.avg # Unwrap(call.out_state).square_avg.square_avg

\* the normalized gradient of the last call, from the avg step returned
C11_NormalizedGrad ==
    FDiv(RMSPropFedGrad,
         FAdd(FSqrt(Unwrap(call.out_state).centered.avg), optim.optim.momentum.epsilon))
\* C11: RMSProp's momentum sub-transform: normalized_grad = grad / (sqrt(avg) +
\* epsilon) with the avg of the current step; if momentum > 0 then buffer =
\* momentum*prev_buffer + normalized_grad (or normalized_grad when the prior
\* buffer is absent), the adapted gradient is buffer and the returned momentum
\* state is present holding buffer; if momentum == 0 the adapted gradient is
\* normalized_grad and the returned momentum state is absent.
C11_MomentumReferenceRule ==
    IsRMSPropCall =>
        LET out == Unwrap(call.out_state)
            momentum == optim.optim.momentum.momentum
            buffer == IF IsSome(PrevRMSPropMomentum)
                      THEN FAdd(FMul(momentum, Unwrap(PrevRMSPropMomentum).buf),
                                C11_NormalizedGrad)
                      ELSE C11_NormalizedGrad
        IN  /\ FGtZero(momentum) =>
                  /\ out.momentum = Some([buf |-> buffer])
                  /\ call.out_tensor = FSub(call.tensor, FMul(call.lr, buffer))
            /\ FIsZero(momentum) =>
                  /\ out.momentum = None
                  /\ call.out_tensor =
                         FSub(call.tensor, FMul(call.lr, C11_NormalizedGrad))

\* a step with momentum > 0 on a prior buffer, with epsilon > 0 and a finite
\* non-zero normalized gradient that the buffer differs from
C11_Witness ==
    /\ IsRMSPropCall
    /\ FGtZero(optim.optim.momentum.momentum)
    /\ FGtZero(optim.optim.momentum.epsilon)
    /\ IsSome(PrevRMSPropMomentum)
    /\ IsFinite(C11_NormalizedGrad) /\ ~FIsZero(C11_NormalizedGrad)
    /\ Unwrap(call.out_state).momentum # Some([buf |-> C11_NormalizedGrad])

\* the all-zero state of the shape the optimizer's configuration produces
C12_AdamZeroState ==
    AdamState_new(IF IsSome(optim.optim.weight_decay)
                  THEN Some(WeightDecayState_new(Zero)) ELSE None,
                  AdaptiveMomentumState_new(USize(0), Zero, Zero))
C12_RMSPropZeroState ==
    RMSPropState_new(SquareAvgState_new(Zero),
                     CenteredState_new(IF optim.optim.centered THEN Some(Zero) ELSE None, Zero),
                     IF FGtZero(optim.optim.momentum.momentum)
                     THEN Some(RMSPropMomentumState_new(Zero)) ELSE None)
\* C12 (as stated): first-step initialization: for both Adam and RMSProp,
\* step with no previous state returns the same new parameter and the same
\* new state as step with an all-zero previous state of the same shape (Adam:
\* step_count 0, zero moments, zero weight-decay buffer; RMSProp: zero
\* square_avg, zero grad_avg when centered, zero momentum buffer when
\* momentum > 0), for every gradient, parameter and learning rate.
C12_FirstStepAsFromZero_Identical ==
    /\ (IsAdamCall /\ IsNone(call.state)) =>
          LET r == Adam_step(call.powf, optim.optim, call.lr, call.tensor, call.grad,
                             Some(C12_AdamZeroState))
          IN  r.tensor = call.out_tensor /\ r.state = call.out_state
    /\ (IsRMSPropCall /\ IsNone(call.state)) =>
          LET r == RMSProp_step(call.powf, optim.optim, call.lr, call.tensor, call.grad,
                                Some(C12_RMSPropZeroState))
          IN  r.tensor = call.out_tensor /\ r.state = call.out_state

\* a result with the sign of its zeros cleared: -0 and +0 are one value
\* (0 * beta + g * (1 - beta) is +0 where g * (1 - beta) alone is -0)
C12_Canon(x) == IF FIsZero(x) THEN Zero ELSE x
C12_CanonOpt(o, F(_)) == IF IsSome(o) THEN Some(F(Unwrap(o))) ELSE None
C12_CanonWeightDecay(w) == WeightDecayState_new(C12_Canon(w.weight_decay_buffer))
C12_CanonBuf(m) == RMSPropMomentumState_new(C12_Canon(m.buf))
C12_CanonAdam(st) ==
    AdamState_new(C12_CanonOpt(st.weight_decay, C12_CanonWeightDecay),
                  AdaptiveMomentumState_new(st.momentum.time,
                                            C12_Canon(st.momentum.moment_1),
                                            C12_Canon(st.momentum.moment_2)))
C12_CanonRMSProp(st) ==
    RMSPropState_new(SquareAvgState_new(C12_Canon(st.square_avg.square_avg)),
                     CenteredState_new(C12_CanonOpt(st.centered.grad_avg, C12_Canon),
                                       C12_Canon(st.centered.avg)),
                     C12_CanonOpt(st.momentum, C12_CanonBuf))
\* C12 (amended): the same, except that an element which is zero in both
\* results may be -0 in one and +0 in the other: every other element of the
\* new parameter and of the new state, the step count and the presence of
\* each sub-state are identical.
C12_FirstStepAsFromZero ==
    /\ (IsAdamCall /\ IsNone(call.state)) =>
          LET r == Adam_step(call.powf, optim.optim, call.lr, call.tensor, call.grad,
                             Some(C12_AdamZeroState))
          IN  /\ C12_Canon(r.tensor) = C12_Canon(call.out_tensor)
              /\ C12_CanonOpt(r.state, C12_CanonAdam)
                    = C12_CanonOpt(call.out_state, C12_CanonAdam)
    /\ (IsRMSPropCall /\ IsNone(call.state)) =>
          LET r == RMSProp_step(call.powf, optim.optim, call.lr, call.tensor, call.grad,
                                Some(C12_RMSPropZeroState))
          IN  /\ C12_Canon(r.tensor) = C12_Canon(call.out_tensor)
              /\ C12_CanonOpt(r.state, C12_CanonRMSProp)
                    = C12_CanonOpt(call.out_state, C12_CanonRMSProp)

\* a first Adam step with weight decay configured and a non-zero gradient,
\* which returns non-zero moments, a step count of 1 and a moved parameter,
\* all of them identical to those the all-zero state gives
C12_Witness ==
    /\ IsAdamCall
    /\ IsNone(call.state)
    /\ IsSome(optim.optim.weight_decay)
    /\ ~FIsZero(call.grad)
    /\ ~FIsZero(Unwrap(call.out_state).momentum.moment_1)
    /\ Unwrap(call.out_state).momentum.time = USize(1)
    /\ IsFinite(call.out_tensor) /\ call.out_tensor # call.tensor
    /\ Adam_step(call.powf, optim.optim, call.lr, call.tensor, call.grad,
                 Some(C12_AdamZeroState)).state = call.out_state

IsAdamToDevice == call.op = "Adam.to_device"
IsRMSPropToDevice == call.op = "RMSProp.to_device"
\* tensor t is tensor s relocated to dev
C14_Moved(s, t, dev) == t.device = dev /\ t.data = s.data
C14_MovedOption(s, t, dev) ==
    /\ IsSome(t) <=> IsSome(s)
    /\ IsSome(s) => C14_Moved(Unwrap(s), Unwrap(t), dev)
\* C14: to_device relocates every tensor held in a state and changes nothing
\* else: for Adam both moments and, when present, the weight-decay state are
\* moved while the step counter is unchanged and an absent weight-decay state
\* stays absent; for RMSProp square_avg, avg, grad_avg when present and the
\* momentum buffer when present are moved, and absent optional sub-states stay
\* absent; no tensor value is altered.
C14_ToDeviceRelocatesAll ==
    /\ IsAdamToDevice =>
          LET s == call.state
              t == call.out_state
          IN  /\ C14_Moved(s.momentum.moment_1, t.momentum.moment_1, call.device)
              /\ C14_Moved(s.momentum.moment_2, t.momentum.moment_2, call.device)
              /\ t.momentum.time = s.momentum.time
              /\ IsSome(t.weight_decay) <=> IsSome(s.weight_decay)
              /\ IsSome(s.weight_decay) =>
                     C14_Moved(Unwrap(s.weight_decay).weight_decay_buffer,
                               Unwrap(t.weight_decay).weight_decay_buffer, call.device)
              /\ AdamState_data(t) = AdamState_data(s)
    /\ IsRMSPropToDevice =>
          LET s == call.state
              t == call.out_state
          IN  /\ C14_Moved(s.square_avg.square_avg, t.square_avg.square_avg, call.device)
              /\ C14_Moved(s.centered.avg, t.centered.avg, call.device)
              /\ C14_MovedOption(s.centered.grad_avg, t.centered.grad_avg, call.device)
              /\ IsSome(t.momentum) <=> IsSome(s.momentum)
              /\ IsSome(s.momentum) =>
                     C14_Moved(Unwrap(s.momentum).buf, Unwrap(t.momentum).buf, call.device)
              /\ RMSPropState_data(t) = RMSPropState_data(s)

\* an Adam state with a weight-decay state and a step count of 2, moved from
\* the device it was on to another one
C14_Witness ==
    /\ IsAdamToDevice
    /\ IsSome(call.state.weight_decay)
    /\ call.state.momentum.time = USize(2)
    /\ call.state.momentum.moment_2.device # call.device
    /\ call.out_state.momentum.moment_2.device = call.device
    /\ ~FIsZero(call.state.momentum.moment_2.data)

\* gradient + penalty * parameter, on the arguments of the last call
C15_CoupledGrad ==
    FAdd(call.grad, FMul(Unwrap(optim.optim.weight_decay).penalty, call.tensor))
\* the last call is the second step of test_rmsprop_optimizer_with_numbers_basic
\* on a bias element, which the test expects at 0.239199 to 6 decimal places
C15_TestReplayed ==
    /\ optim = RMSPropConfig_init(RMSPropTestConfig)
    /\ fresh /\ steps = 2
C15_TestBiasExpected == B32(1, 16052373, -26)
C15_TestTolerance == B32(1, 8796093, -43)
\* the fields of an RMSProp state: none of them is a weight-decay buffer
C15_StateFields == {"square_avg", "centered", "momentum"}
\* C15: RMSProp's weight decay is the stateless coupled mode: when configured,
\* the gradient fed to the square-average transform is gradient +
\* penalty*parameter computed from the parameter value passed to this step, it
\* is applied before the square-average, centered and momentum sub-transforms,
\* and no weight-decay buffer is read from or written to the RMSProp state
\* across any sequence of steps.  (The bias the repository's test expects
\* after two steps is the one this gradient gives.)
C15_CoupledWeightDecay ==
    (IsRMSPropCall /\ IsSome(optim.optim.weight_decay)) =>
        LET out == Unwrap(call.out_state)
            sq == SquareAvgState_transform(call.powf.square, optim.optim.alpha, C15_CoupledGrad, PrevSquareAvg)
            ce == CenteredState_transform(call.powf.centered, optim.optim.alpha, optim.optim.centered, C15_CoupledGrad,
                                          sq.state, PrevCentered)
            m == RMSPropMomentum_transform(optim.optim.momentum, C15_CoupledGrad, ce.centered,
                                           PrevRMSPropMomentum)
        IN  /\ out.square_avg = sq.state
            /\ out.centered = ce.centered
            /\ out.momentum = m.momentum
            /\ call.out_tensor = FSub(call.tensor, FMul(call.lr, m.grad))
            /\ DOMAIN out = C15_StateFields
            /\ IsSome(call.state) => DOMAIN Unwrap(call.state) = C15_StateFields
            /\ C15_TestReplayed =>
                   FLt(FAbs(FSub(call.out_tensor, C15_TestBiasExpected)),
                       C15_TestTolerance)

\* a second centered step with weight decay and momentum, on a parameter the
\* first step moved: the fed gradient differs from the raw one
C15_Witness ==
    /\ IsRMSPropCall
    /\ IsSome(optim.optim.weight_decay)
    /\ optim.optim.centered
    /\ FGtZero(optim.optim.momentum.momentum)
    /\ fresh /\ steps = 2
    /\ call.tensor # Half
    /\ IsFinite(C15_CoupledGrad)
    /\ C15_CoupledGrad # call.grad
    /\ IsFinite(call.out_tensor)

\* the three divisors of the Adam step of the last call, as the code forms them
C16_Divisor1 ==
    FSub(One, Powi(optim.optim.momentum.beta_1,
                   BiasExponent(Unwrap(call.out_state).momentum)))
C16_Divisor2 ==
    FSub(One, Powi(optim.optim.momentum.beta_2,
                   BiasExponent(Unwrap(call.out_state).momentum)))
C16_Divisor3 ==
    FAdd(FSqrt(FDiv(Unwrap(call.out_state).momentum.moment_2, C16_Divisor2)),
         optim.optim.momentum.epsilon)
C16_NoDivisorZero ==
    /\ ~FIsZero(C16_Divisor1)
    /\ ~FIsZero(C16_Divisor2)
    /\ FGtZero(C16_Divisor3)
C16_NoDegeneracy == C16_NoDivisorZero /\ IsFinite(call.out_tensor)
\* C16 (as stated): with epsilon > 0 and beta1, beta2 in [0,1), no divisor in
\* an Adam step is zero in any reachable state: 1 - beta1^step_count and 1 -
\* beta2^step_count are non-zero for every step_count >= 1, and
\* sqrt(corrected_second) + epsilon is strictly positive even when
\* second_moment is exactly zero; hence repeated steps on finite gradients
\* yield no non-finite parameter value.
C16_NoZeroDivisor_AnyCount ==
    (IsAdamCall /\ ValidHyperparameters) => C16_NoDegeneracy

\* C16 (amended): the same for every step_count from 1 to 2^31 - 1, the
\* counts the 32-bit signed exponent of the bias-correction powers can hold:
\* no divisor of such a step is zero, and such a step on a finite gradient
\* returns a finite parameter when it was given one.
C16_NoZeroDivisor ==
    (/\ IsAdamCall /\ ValidHyperparameters
     /\ USizeInI32(Unwrap(call.out_state).momentum.time)
     /\ USizeLess(USize(0), Unwrap(call.out_state).momentum.time))
        => /\ C16_NoDivisorZero
           /\ IsFinite(call.tensor) => IsFinite(call.out_tensor)

\* a second step whose second moment is exactly zero, with epsilon > 0: the
\* last divisor is epsilon and the parameter stays finite
C16_Witness ==
    /\ IsAdamCall
    /\ ValidHyperparameters
    /\ fresh /\ steps = 2
    /\ FIsZero(Unwrap(call.out_state).momentum.moment_2)
    /\ C16_Divisor3 = optim.optim.momentum.epsilon
    /\ C16_Divisor1 # One
    /\ IsFinite(call.out_tensor)

\* the divisor of the RMSProp step of the last call: sqrt(avg) + epsilon
C17_RMSPropDivisor ==
    FAdd(FSqrt(Unwrap(call.out_state).centered.avg), optim.optim.momentum.epsilon)
C17_Propagated == IsSome(call.out_state) /\ ~IsFinite(call.out_tensor)
\* C17 (as stated): numerical degeneracy is not caught inside the optimizer:
\* when a divisor is zero, step still returns an updated parameter and a
\* present state, and the non-finite value is propagated into the returned
\* parameter.
C17_AnyZeroDivisorPropagates ==
    /\ (IsAdamCall /\ (FIsZero(C16_Divisor1) \/ FIsZero(C16_Divisor2)
                            \/ FIsZero(C16_Divisor3))) => C17_Propagated
    /\ (IsRMSPropCall /\ FIsZero(C17_RMSPropDivisor)) => C17_Propagated

C18_AvgValues == {Zero, Eighth, One, FNeg(One), PInf, NaN}
\* C18: the outputs of an RMSProp step (new parameter and new state) do not
\* depend on the avg field of the previous centered state: the step repeated
\* on inputs that differ only in previous_state.centered.avg returns the
\* same parameter and the same state.
C18_PriorAvgNeverRead ==
    (IsRMSPropCall /\ IsSome(call.state)) =>
        \A a \in C18_AvgValues :
            LET other == [Unwrap(call.state) EXCEPT !.centered.avg = a]
                r == RMSProp_step(call.powf, optim.optim, call.lr, call.tensor, call.grad, Some(other))
            IN  r.tensor = call.out_tensor /\ r.state = call.out_state

\* a centered step on a supplied state whose avg is not the one the step
\* stores: the stored avg comes from the new square_avg and grad_avg alone
C18_Witness ==
    /\ IsRMSPropCall
    /\ optim.optim.centered
    /\ IsSome(call.state)
    /\ Unwrap(call.state).centered.avg = Quarter
    /\ Unwrap(call.out_state).centered.avg # Quarter
    /\ Unwrap(call.out_state).centered.avg =
          FSub(Unwrap(call.out_state).square_avg.square_avg,
               FMul(Unwrap(Unwrap(call.out_state).centered.grad_avg),
                    Unwrap(Unwrap(call.out_state).centered.grad_avg)))
    /\ IsFinite(call.out_tensor)

\* C19: with centered = true and alpha in [0,1), after any sequence of RMSProp
\* steps starting from an absent state, avg = square_avg - grad_avg^2 is
\* non-negative, so the square root taken in the momentum transform is
\* always of a non-negative value.
C19_CenteredAvgNonNegative ==
    (IsRMSPropCall /\ optim.optim.centered /\ fresh)
        => FGeZero(Unwrap(call.out_state).centered.avg)

C20_FirstStep ==
    /\ IsAdamCall
    /\ IsNone(call.state)
    /\ IsNone(optim.optim.weight_decay)
    /\ ValidHyperparameters
    /\ FGtZero(call.lr)
C20_Adapted ==
    FDiv(call.grad, FAdd(FAbs(call.grad), optim.optim.momentum.epsilon))
\* C20: on the first Adam step (no prior state, no weight decay, beta1 and
\* beta2 in [0,1), epsilon > 0) the adapted gradient is grad / (|grad| +
\* epsilon): the parameter moves by strictly less than learning_rate in
\* magnitude, in the direction opposite to the sign of its gradient, and is
\* unchanged when the gradient is zero.
C20_FirstStepBounded ==
    C20_FirstStep =>
        /\ call.out_tensor = FSub(call.tensor, FMul(C20_Adapted, call.lr))
        /\ FLt(FAbs(FSub(call.out_tensor, call.tensor)), call.lr)
        /\ FGtZero(call.grad) => FLt(call.out_tensor, call.tensor)
        /\ FGtZero(FNeg(call.grad)) => FLt(call.tensor, call.out_tensor)
        /\ (FGeZero(call.grad) /\ ~FGtZero(call.grad))
              => call.out_tensor = call.tensor

\* the adapted gradient of the last Adam call when the raw gradient is fed to
\* the adaptive-momentum transform
C21_RawAdapted ==
    AdaptiveMomentum_transform(call.powf, optim.optim.momentum, call.grad, PrevAdamMomentum)

\* C21: when Adam has no weight decay configured, step returns the prior
\* weight-decay slice of the state unchanged (a present one is neither updated
\* nor dropped, an absent one stays absent), and the gradient is not altered
\* by it: the momentum slice and the parameter are those the raw gradient gives.
C21_DecaySliceUntouched ==
    (IsAdamCall /\ IsNone(optim.optim.weight_decay)) =>
        /\ Unwrap(call.out_state).weight_decay = PrevAdamWeightDecay
        /\ Unwrap(call.out_state).momentum = C21_RawAdapted.state
        /\ call.out_tensor =
               FSub(call.tensor, FMul(call.lr, C21_RawAdapted.grad))

\* a step without weight decay on a state that carries a weight-decay buffer,
\* with a finite non-zero gradient that a decay by that buffer would change
C21_Witness ==
    /\ IsAdamCall
    /\ IsNone(optim.optim.weight_decay)
    /\ IsSome(PrevAdamWeightDecay)
    /\ ~FIsZero(Unwrap(PrevAdamWeightDecay).weight_decay_buffer)
    /\ IsSome(Unwrap(call.out_state).weight_decay)
    /\ ~FIsZero(call.grad)
    /\ IsFinite(call.out_tensor)

\* momentum <= 0. of the configured momentum
C22_MomentumNotPositive == FGeZero(FNeg(optim.optim.momentum.momentum))

\* C22: RMSProp treats every momentum value <= 0, negative ones included, as
\* no momentum: the adapted gradient is the normalized gradient and the
\* returned momentum state is absent, also when the previous state carried a
\* buffer, which is discarded and does not contribute to the update.
C22_NoMomentumBelowZero ==
    (IsRMSPropCall /\ C22_MomentumNotPositive) =>
        /\ Unwrap(call.out_state).momentum = None
        /\ call.out_tensor =
               FSub(call.tensor, FMul(call.lr, C11_NormalizedGrad))

\* a step with a negative momentum on a state that carries a buffer, where
\* the buffer rule would have given another update
C22_Witness ==
    /\ IsRMSPropCall
    /\ FGtZero(FNeg(optim.optim.momentum.momentum))
    /\ IsSome(PrevRMSPropMomentum)
    /\ IsNone(Unwrap(call.out_state).momentum)
    /\ IsFinite(C11_NormalizedGrad)
    /\ IsFinite(call.out_tensor)
    /\ call.out_tensor #
           FSub(call.tensor,
                FMul(call.lr,
                     FAdd(FMul(optim.optim.momentum.momentum, Unwrap(PrevRMSPropMomentum).buf),
                          C11_NormalizedGrad)))

====
